---- MODULE Spec2Model ----
(***************************************************************************)
(* toas2dat: conversion of a file of times of arrival (TOAs) into a binned  *)
(* floating point time series (src/src/toas2dat.c).                         *)
(*                                                                         *)
(* Times are modelled by integers: every raw TOA, epoch and bin width of    *)
(* the model is an integer number of seconds (or days), all far below 2^53, *)
(* so each is exactly a C double and the subtractions and the products by   *)
(* SECPERDAY and WORKLEN of the program are exact.  The two operations of   *)
(* the program that do round, 1.0 / dt and (toa - lotime) * dtfract, are    *)
(* computed bit by bit as IEEE-754 binary64 does (round to nearest, ties to *)
(* even) on 53-bit significands.  The epoch that readinf returns can be     *)
(* +infinity or NaN, and then so are the origin and the offsets: the three  *)
(* doubles that are not finite are named by integers beyond every finite    *)
(* time of the model, and the sums, products and comparisons of times go    *)
(* through Plus, Minus, Times, Ge and Lt, which treat them as IEEE-754 does.*)
(***************************************************************************)
EXTENDS Integers, Sequences, FiniteSets, TLC

(***************************************************************************)
(* Program constants.                                                      *)
(***************************************************************************)
WORKLEN == 65536
SECPERDAY == 86400
LINELEN == 80
NAMELEN == 100
INFNAMELEN == 200
MantBits == 53

(***************************************************************************)
(* Bounds of the model and the input values drawn within them.             *)
(***************************************************************************)
MaxToas == 2
MaxBlocks == 2
MaxFileLen == 5

\* Raw TOAs: in seconds, also one a whole block after 0 for dt = 1; in days,
\* small ones only, so that the seconds stay below 2^31
RawValues(secP) == IF secP THEN {0, 1, 49, WORKLEN} ELSE {0, 1, 49}
DtValues == {1, 49}
Remainders == {0, 5}
NumoutValues == {b * WORKLEN + r : b \in 0..MaxBlocks, r \in Remainders}
EpochValues == {0}
InfEpochValues == {1}
\* .inf files: the digits after the epoch's '.', none of them or a last one
\* that is not 0; the bin counts
FracValues == {<<"0">>, <<"5">>}
InfBinValues == {WORKLEN + 5}
\* the lengths of the name in a name line and of the .inf file's own name
\* without its suffix: short ones, and ones that do not fit
NameLens == {1, NAMELEN + 20}
InfNameLens == {1, INFNAMELEN - 4}
GarbageValues == {-1, 7}
TextChars == {"#", "\n", " ", "1", "x"}

SeqsUpTo(S, n) == UNION {[1..k -> S] : k \in 0..n}

(***************************************************************************)
(* The doubles that are not finite, and the arithmetic of times.  Every    *)
(* finite time of the model is below 2^24 in magnitude.                    *)
(***************************************************************************)
PosInf == 2 ^ 30
NegInf == 0 - PosInf
NaN == PosInf + 1

IsNaN(x) == x = NaN
IsInf(x) == x = PosInf \/ x = NegInf

\* a + b
Plus(a, b) ==
    IF IsNaN(a) \/ IsNaN(b) THEN NaN
    ELSE IF IsInf(a) /\ IsInf(b) THEN (IF a = b THEN a ELSE NaN)
    ELSE IF IsInf(a) THEN a
    ELSE IF IsInf(b) THEN b
    ELSE a + b

\* a - b
Minus(a, b) == Plus(a, IF IsNaN(b) THEN NaN ELSE 0 - b)

\* a * b: 0 times an infinity is NaN
Times(a, b) ==
    IF IsNaN(a) \/ IsNaN(b) THEN NaN
    ELSE IF IsInf(a) \/ IsInf(b)
         THEN (IF a = 0 \/ b = 0 THEN NaN
               ELSE IF (a > 0) = (b > 0) THEN PosInf ELSE NegInf)
    ELSE a * b

\* a >= b: false when either is NaN
Ge(a, b) == ~IsNaN(a) /\ ~IsNaN(b) /\ a >= b

(***************************************************************************)
(* IEEE-754 binary64 arithmetic on non-negative values.  A double is        *)
(* [mant, exp]: mant the MantBits-bit significand as an integer, written    *)
(* as 7 base-256 digits, most significant first; its value is mant times    *)
(* 2^exp.  Zero has mant 0.  Long division and multiplication run on        *)
(* base-256 digits so that every intermediate fits a 32-bit integer:        *)
(* divisors and multipliers are below 2^23.  +infinity is written with the *)
(* exponent 1024, one beyond every finite double's.                        *)
(***************************************************************************)
Pow2(n) == 2 ^ n

\* The least s with 2^s >= d
CeilLog2(d) == CHOOSE s \in 0..30 : Pow2(s) >= d /\ (s = 0 \/ Pow2(s - 1) < d)

ZeroBits(n) == [i \in 1..n |-> 0]

\* Base-256 digits (most significant first) as bits, and back
BytesToBits(bytes) ==
    [j \in 1..(8 * Len(bytes)) |->
        (bytes[((j - 1) \div 8) + 1] \div Pow2(7 - ((j - 1) % 8))) % 2]

BitsToBytes(bits) ==
    LET pad == (8 - (Len(bits) % 8)) % 8
        pb  == ZeroBits(pad) \o bits
    IN  [k \in 1..(Len(pb) \div 8) |->
            128 * pb[8 * k - 7] + 64 * pb[8 * k - 6] + 32 * pb[8 * k - 5]
            + 16 * pb[8 * k - 4] + 8 * pb[8 * k - 3] + 4 * pb[8 * k - 2]
            + 2 * pb[8 * k - 1] + pb[8 * k]]

RECURSIVE BytesToInt(_, _)
BytesToInt(bytes, acc) ==
    IF bytes = <<>> THEN acc ELSE BytesToInt(Tail(bytes), 256 * acc + Head(bytes))

RECURSIVE IntToBytes(_)
IntToBytes(n) == IF n = 0 THEN <<>> ELSE Append(IntToBytes(n \div 256), n % 256)

\* bits without its leading zeros
StripZeros(bits) ==
    LET ones == {i \in 1..Len(bits) : bits[i] = 1}
    IN  IF ones = {} THEN <<>>
        ELSE SubSeq(bits, CHOOSE i \in ones : \A k \in ones : i <= k, Len(bits))

\* bits + 1, one bit longer when the carry runs out of the top
IncBits(bits) ==
    LET zeros == {i \in 1..Len(bits) : bits[i] = 0}
    IN  IF zeros = {} THEN <<1>> \o ZeroBits(Len(bits))
        ELSE LET p == CHOOSE i \in zeros : \A k \in zeros : k <= i
             IN  [i \in 1..Len(bits) |-> IF i < p THEN bits[i] ELSE IF i = p THEN 1 ELSE 0]

\* Round the exact value (bits * 2^exp, plus a nonzero tail below the last
\* bit iff sticky) to MantBits significant bits: to nearest, ties to even.
RoundBits(bits, exp, sticky) ==
    LET b == StripZeros(bits)
        L == Len(b)
    IN  IF L = 0 THEN [mant |-> BitsToBytes(ZeroBits(MantBits)), exp |-> 0]
        ELSE IF L <= MantBits
        THEN [mant |-> BitsToBytes(b \o ZeroBits(MantBits - L)),
              exp |-> exp - (MantBits - L)]
        ELSE LET kept  == SubSeq(b, 1, MantBits)
                 guard == b[MantBits + 1]
                 rest  == sticky \/ \E i \in (MantBits + 2)..L : b[i] = 1
                 up    == guard = 1 /\ (rest \/ kept[MantBits] = 1)
                 inc   == IF up THEN IncBits(kept) ELSE kept
             IN  IF Len(inc) > MantBits
                 THEN [mant |-> BitsToBytes(SubSeq(inc, 1, MantBits)),
                       exp |-> exp + (L - MantBits) + 1]
                 ELSE [mant |-> BitsToBytes(inc), exp |-> exp + (L - MantBits)]

\* n more base-256 digits of the quotient r / d by long division (r < d)
RECURSIVE DivBytes(_, _, _, _)
DivBytes(r, d, n, acc) ==
    IF n = 0 THEN [bytes |-> acc, rem |-> r]
    ELSE DivBytes((256 * r) % d, d, n - 1, Append(acc, (256 * r) \div d))

InfDouble == [mant |-> BitsToBytes(ZeroBits(MantBits)), exp |-> 1024]

\* 1.0 / d for an integer d >= 0: +infinity for 0; else 2^s / d is in
\* [1, 2), its integer part 1
Recip(d) ==
    IF d = 0 THEN InfDouble
    ELSE LET s == CeilLog2(d)
             q == DivBytes(Pow2(s) - d, d, 7, <<1>>)
         IN  RoundBits(BytesToBits(q.bytes), (0 - s) - 56, q.rem # 0)

\* The exact product x * bytes in base 256, from the last digit up
RECURSIVE MulBytes(_, _, _, _)
MulBytes(bytes, x, i, carry) ==
    IF i = 0 THEN IntToBytes(carry)
    ELSE Append(MulBytes(bytes, x, i - 1, (x * bytes[i] + carry) \div 256),
                (x * bytes[i] + carry) % 256)

\* x * f for an integer x >= 0 (exactly a double) and a double f
MulInt(x, f) ==
    RoundBits(BytesToBits(MulBytes(f.mant, x, Len(f.mant), 0)), f.exp, FALSE)

\* The MantBits bits of a significand
MantOf(f) == SubSeq(BytesToBits(f.mant), 8 * Len(f.mant) - MantBits + 1, 8 * Len(f.mant))

\* (int) f for a double 0 <= f < 2^31 with f.exp < 0: the integer part
Trunc(f) ==
    IF MantBits + f.exp <= 0 THEN 0
    ELSE BytesToInt(BitsToBytes(SubSeq(MantOf(f), 1, MantBits + f.exp)), 0)

(***************************************************************************)
(* Text sources: sequences of one-character strings.                       *)
(***************************************************************************)
DigitChars == <<"0", "1", "2", "3", "4", "5", "6", "7", "8", "9">>
IsDigit(c) == \E k \in 1..10 : DigitChars[k] = c
DigitVal(c) == (CHOOSE k \in 1..10 : DigitChars[k] = c) - 1
IsSpace(c) == c \in {" ", "\n"}

RECURSIVE DigitsOf(_)
DigitsOf(n) ==
    IF n < 10 THEN <<DigitChars[n + 1]>>
    ELSE Append(DigitsOf(n \div 10), DigitChars[(n % 10) + 1])

\* A text TOA file holding the integer values of vals, one per line
RECURSIVE TextOf(_)
TextOf(vals) ==
    IF vals = <<>> THEN <<>>
    ELSE (IF Head(vals) < 0 THEN <<"-">> \o DigitsOf(0 - Head(vals))
          ELSE DigitsOf(Head(vals))) \o <<"\n">> \o TextOf(Tail(vals))

\* fgets(line, LINELEN, infile) with pos characters of file already consumed:
\* at most LINELEN - 1 characters, stopping after a newline; the end-of-file
\* indicator is set when the end is hit before either; NULL when it is hit
\* before any character.
fgets(file, pos) ==
    LET limit == IF pos + (LINELEN - 1) < Len(file) THEN pos + (LINELEN - 1) ELSE Len(file)
        nls   == {i \in (pos + 1)..limit : file[i] = "\n"}
        last  == IF nls = {} THEN limit ELSE CHOOSE i \in nls : \A k \in nls : i <= k
        eof   == nls = {} /\ Len(file) - pos < LINELEN - 1
    IN  [line |-> SubSeq(file, pos + 1, last), pos |-> last,
         eof |-> eof, null |-> eof /\ last = pos]

RECURSIVE DecimalValue(_, _)
DecimalValue(digits, acc) ==
    IF digits = <<>> THEN acc
    ELSE DecimalValue(Tail(digits), 10 * acc + DigitVal(Head(digits)))

\* sscanf(line, "%lf", &d): skips white space, then converts the longest
\* leading number; [ok |-> the conversion count is 1, val |-> d].  The text
\* sources of the model hold integers only: a sign and decimal digits.
sscanf(line) ==
    LET body   == {i \in 1..Len(line) : ~IsSpace(line[i])}
        first  == IF body = {} THEN Len(line) + 1
                  ELSE CHOOSE i \in body : \A k \in body : i <= k
        neg    == first <= Len(line) /\ line[first] = "-"
        start  == IF neg THEN first + 1 ELSE first
        others == {i \in start..Len(line) : ~IsDigit(line[i])}
        stop   == IF others = {} THEN Len(line) + 1
                  ELSE CHOOSE i \in others : \A k \in others : i <= k
        mag    == DecimalValue(SubSeq(line, start, stop - 1), 0)
    IN  [ok |-> stop > start, val |-> IF neg THEN 0 - mag ELSE mag]

\* read_toas, first loop: count the TOAs
RECURSIVE CountPass(_, _, _)
CountPass(file, pos, numtoa) ==
    LET got == fgets(file, pos)
    IN  IF ~got.eof /\ ~got.null /\ got.line[1] # "\n"
        THEN IF got.line[1] # "#" /\ sscanf(got.line).ok
             THEN CountPass(file, got.pos, numtoa + 1)
             ELSE CountPass(file, got.pos, numtoa)
        ELSE numtoa

\* read_toas, second loop after rewind: store the TOAs
RECURSIVE FillPass(_, _, _)
FillPass(file, pos, toas) ==
    LET got == fgets(file, pos)
    IN  IF ~got.eof /\ ~got.null /\ got.line[1] # "\n"
        THEN IF got.line[1] # "#" /\ sscanf(got.line).ok
             THEN FillPass(file, got.pos, Append(toas, sscanf(got.line).val))
             ELSE FillPass(file, got.pos, toas)
        ELSE toas

read_toas(file) ==
    [numtoa |-> CountPass(file, 0, 0), toas |-> FillPass(file, 0, <<>>)]

(***************************************************************************)
(* The .inf file: its lines in order, each one the key it starts with and  *)
(* what follows its '='.  A name line has a name of val characters, in     *)
(* double quotes or not; an epoch line has a whole number of days, then a  *)
(* '.' or not, then the digits after the '.'.                              *)
(***************************************************************************)
NameLine(q, len) ==
    [key |-> "name", val |-> len, quoted |-> q, point |-> FALSE, frac |-> <<>>]
BinsLine(n) ==
    [key |-> "bins", val |-> n, quoted |-> FALSE, point |-> FALSE, frac |-> <<>>]
WidthLine(d) ==
    [key |-> "width", val |-> d, quoted |-> FALSE, point |-> FALSE, frac |-> <<>>]
EpochLine(whole, pt, digits) ==
    [key |-> "epoch", val |-> whole, quoted |-> FALSE, point |-> pt, frac |-> digits]

\* readinf, lines 99-102: the values of a field whose line is absent
NoInf == [N |-> 0, dt |-> 0, mjd_i |-> 0, mjd_f |-> 0]

\* pow(10.0, -strlen(tmp1)), line 127: strlen is unsigned and so is its
\* negation, 0 for the length 0 and else 2^64 - len (2^32 - len where size_t
\* has 32 bits); 10 to that power overflows to +infinity
Pow10NegLen(len) == IF len = 0 THEN 1 ELSE PosInf

\* readinf, lines 109-130: what one line does to idata.  With a '.' in the
\* epoch line the digits after it, times Pow10NegLen, are mjd_f, and mjd_i
\* is the floor of the number sscanf converted, its whole part.
ReadInfLine(l, id) ==
    IF l.key = "bins" THEN [id EXCEPT !.N = l.val]
    ELSE IF l.key = "width" THEN [id EXCEPT !.dt = l.val]
    ELSE IF l.key = "epoch"
    THEN (IF l.point
          THEN [id EXCEPT !.mjd_f = Times(DecimalValue(l.frac, 0),
                                          Pow10NegLen(Len(l.frac))),
                          !.mjd_i = l.val]
          ELSE [id EXCEPT !.mjd_i = l.val])
    ELSE id

\* strcpy(idata->name, tmp1), line 112, into char name[NAMELEN]: the name
\* and its terminator do not fit
StrcpyOverflows(len) == len + 1 > NAMELEN

\* sprintf(infofilenm, "%s.inf", filenm), line 91, into
\* char infofilenm[INFNAMELEN]: the name, ".inf" and the terminator do not fit
SprintfOverflows(len) == len + 4 + 1 > INFNAMELEN

\* readinf, lines 105-131: the loop over the lines, and its outcomes.  On a
\* name line with no double quote the second strtok returns NULL and strcpy
\* faults.  A quoted name that overflows idata->name is undefined
\* behaviour: a fault, or the loop goes on.
RECURSIVE ReadInfLines(_, _)
ReadInfLines(lines, id) ==
    IF lines = <<>> THEN {[fault |-> FALSE, idata |-> id]}
    ELSE IF Head(lines).key = "name" /\ ~Head(lines).quoted
    THEN {[fault |-> TRUE, idata |-> id]}
    ELSE (IF Head(lines).key = "name" /\ StrcpyOverflows(Head(lines).val)
          THEN {[fault |-> TRUE, idata |-> id]} ELSE {})
         \cup ReadInfLines(Tail(lines), ReadInfLine(Head(lines), id))

\* readinf of the opened file, its name of len characters: an overflow of
\* infofilenm is undefined behaviour, a fault or the function goes on
readinf(file, len) ==
    (IF SprintfOverflows(len) THEN {[fault |-> TRUE, idata |-> NoInf]} ELSE {})
    \cup ReadInfLines(file, NoInf)

(***************************************************************************)
(* Helpers of main.                                                        *)
(***************************************************************************)
compare_doubles(a, b) == (IF a > b THEN 1 ELSE 0) - (IF a < b THEN 1 ELSE 0)

\* qsort(ddata, ntoas, sizeof(double), compare_doubles): ascending order
RECURSIVE Insert(_, _)
Insert(sorted, v) ==
    IF sorted = <<>> THEN <<v>>
    ELSE IF compare_doubles(v, Head(sorted)) <= 0 THEN <<v>> \o sorted
    ELSE <<Head(sorted)>> \o Insert(Tail(sorted), v)

RECURSIVE qsort(_)
qsort(arr) == IF arr = <<>> THEN <<>> ELSE Insert(qsort(Tail(arr)), Head(arr))

\* getfilelen(file, size): the file length in units of size bytes
getfilelen(bytes, size) == bytes \div size

\* The parameters of the .inf file override the command line; its epoch
\* only when the command line gave none.
ApplyInf(c, id) ==
    [c EXCEPT !.dt = id.dt, !.numout = id.N,
              !.t0 = IF ~c.t0P THEN Plus(id.mjd_i, id.mjd_f) ELSE c.t0,
              !.t0P = TRUE]

\* A read of arr[i] (i from 0) in an array of n elements: its outcomes.
\* Past the end the behaviour is undefined: any value, or a fault.
Deref(arr, n, i) ==
    IF 0 <= i /\ i < n THEN {[fault |-> FALSE, val |-> arr[i + 1]]}
    ELSE {[fault |-> FALSE, val |-> g] : g \in GarbageValues}
         \cup {[fault |-> TRUE, val |-> 0]}

\* One TOA in seconds from the origin
Offset(v, origin, secP) ==
    IF secP THEN Minus(v, origin) ELSE Times(Minus(v, origin), SECPERDAY)

NumWrites(numout) ==
    IF numout % WORKLEN # 0 THEN (numout \div WORKLEN) + 1 ELSE numout \div WORKLEN

LoTime(blk, bt) == blk * bt

\* HiTime one block too far
HiTimeOff(blk, bt) == (blk + 2) * bt

HiTime(blk, bt) == (blk + 1) * bt

\* NumToWrite without the shorter last block
NumToWriteFull(numout, blk, nw) == WORKLEN

NumToWrite(numout, blk, nw) ==
    IF numout % WORKLEN # 0 /\ blk = nw - 1 THEN numout % WORKLEN ELSE WORKLEN

\* (int) ((toa - lotime) * dtfract)
BinIndex(t, lo, frac) == Trunc(MulInt(t - lo, frac))

ZeroDouble == [mant |-> BitsToBytes(ZeroBits(MantBits)), exp |-> 0]

(***************************************************************************)
(* State.  fdata, the WORKLEN-bin block buffer, is kept as the function    *)
(* from the bins that are not zero to their counts; a written block is its *)
(* length and the nonzero bins below it.  C locals not yet assigned hold 0. *)
(* loaded, log, oobReads and oobWrite are history variables: the TOAs as    *)
(* read, one entry per TOA the sweep consumed (its index, the block that    *)
(* was current, the bin it went to or -1 when skipped), the indexes of      *)
(* out-of-bounds reads of ddata, and whether fdata was indexed out of       *)
(* bounds.                                                                 *)
(***************************************************************************)
VARIABLES pc, status, argv, inffile, idata, source, cmd, infile, outfile,
          ddata, ntoas, fdata, written, To, toaptr, toa, ii,
          numwrites, numtowrite, dtfract, blockt, lotime, hitime, numplaced,
          loaded, log, oobReads, oobWrite

vars == <<pc, status, argv, inffile, idata, source, cmd, infile, outfile,
          ddata, ntoas, fdata, written, To, toaptr, toa, ii,
          numwrites, numtowrite, dtfract, blockt, lotime, hitime, numplaced,
          loaded, log, oobReads, oobWrite>>

env == <<argv, inffile, idata, source>>
files == <<infile, outfile>>
sweep == <<To, toaptr, toa, ii, numwrites, numtowrite, dtfract, blockt,
           lotime, hitime, numplaced, fdata, written>>
history == <<loaded, log, oobReads, oobWrite>>

\* The command lines: an .inf file replaces -dt and -n; -float only matters
\* for binary input; inflen is the length of the .inf file's name without
\* its suffix.
ArgvSet ==
    {a \in [textP : BOOLEAN, floatP : BOOLEAN, secP : BOOLEAN, t0P : BOOLEAN,
            t0 : EpochValues, inffileP : BOOLEAN, inflen : InfNameLens \cup {0},
            dt : DtValues, numout : NumoutValues] :
        /\ a.textP => ~a.floatP
        /\ a.inffileP => a.dt = 1 /\ a.numout = 0
        /\ a.inffileP = (a.inflen # 0)}

\* The .inf files: each line present or not, in the order PRESTO writes them
Opt(S) == {<<>>} \cup {<<x>> : x \in S}

EpochLines ==
    {EpochLine(e, FALSE, <<>>) : e \in InfEpochValues}
    \cup {EpochLine(e, TRUE, f) : e \in InfEpochValues, f \in FracValues}

InfFiles ==
    {n \o e \o b \o w :
        n \in Opt({NameLine(TRUE, k) : k \in NameLens} \cup {NameLine(FALSE, 1)}),
        e \in Opt(EpochLines),
        b \in Opt({BinsLine(k) : k \in InfBinValues}),
        w \in Opt({WidthLine(d) : d \in DtValues})}

Locals ==
    /\ status = -1
    /\ infile = "none" /\ outfile = "none"
    /\ ddata = <<>> /\ ntoas = 0 /\ fdata = <<>> /\ written = <<>>
    /\ To = 0 /\ toaptr = 0 /\ toa = 0 /\ ii = 0
    /\ numwrites = 0 /\ numtowrite = 0 /\ dtfract = ZeroDouble /\ blockt = 0
    /\ lotime = 0 /\ hitime = 0 /\ numplaced = 0
    /\ loaded = <<>> /\ log = <<>> /\ oobReads = {} /\ oobWrite = FALSE

Init ==
    /\ pc = "parse"
    /\ argv \in ArgvSet
    /\ inffile \in (IF argv.inffileP THEN InfFiles ELSE {<<>>})
    /\ idata = NoInf
    /\ \E raw \in SeqsUpTo(RawValues(argv.secP), MaxToas) :
          source = IF argv.textP THEN TextOf(raw) ELSE raw
    /\ cmd = [dt |-> argv.dt, numout |-> argv.numout, t0P |-> argv.t0P,
              t0 |-> argv.t0, secP |-> argv.secP]
    /\ Locals

Crash == pc' = "crashed" /\ status' = 139

\* main, lines 158-194: the command line, then the .inf file when asked for;
\* readinf exits when it cannot open it (lines 92-96) and can fault on its
\* file name (line 91) or on a name line (line 112).
ParseCmdline ==
    /\ pc = "parse"
    /\ \/ /\ ~argv.inffileP
          /\ pc' = "open_in"
          /\ UNCHANGED <<cmd, idata, status>>
       \/ /\ argv.inffileP
          /\ \E r \in readinf(inffile, argv.inflen) :
                /\ ~r.fault
                /\ idata' = r.idata
                /\ cmd' = ApplyInf(cmd, idata')
          /\ pc' = "open_in"
          /\ UNCHANGED status
       \/ /\ argv.inffileP
          /\ \E r \in readinf(inffile, argv.inflen) : r.fault
          /\ Crash
          /\ UNCHANGED <<cmd, idata>>
       \/ /\ argv.inffileP
          /\ pc' = "failed" /\ status' = 255
          /\ UNCHANGED <<cmd, idata>>
    /\ UNCHANGED <<argv, inffile, source, files, ddata, ntoas, sweep, history>>

\* main, line 208 or 212: fopen of the TOA file, its result not tested
OpenInfile ==
    /\ pc = "open_in"
    /\ \E f \in {"open", "NULL"} : infile' = f
    /\ pc' = "read"
    /\ UNCHANGED <<env, cmd, status, outfile, ddata, ntoas, sweep, history>>

\* main, lines 209-210: text TOAs; read_toas on a NULL stream faults
ReadText ==
    /\ pc = "read" /\ argv.textP
    /\ IF infile = "NULL"
       THEN Crash /\ UNCHANGED <<ddata, ntoas, loaded>>
       ELSE /\ ntoas' = read_toas(source).numtoa
            /\ ddata' = read_toas(source).toas
            /\ loaded' = ddata'
            /\ pc' = "open_out"
            /\ UNCHANGED status
    /\ UNCHANGED <<env, cmd, files, sweep, log, oobReads, oobWrite>>

\* main, lines 213-235: binary TOAs, 4-byte floats (widened to double, which
\* is exact) or 8-byte doubles; fread may return fewer than asked for
ReadBinary ==
    /\ pc = "read" /\ ~argv.textP
    /\ IF infile = "NULL"
       THEN Crash /\ UNCHANGED <<ddata, ntoas, loaded>>
       ELSE /\ ntoas' = getfilelen(Len(source) * (IF argv.floatP THEN 4 ELSE 8),
                                   IF argv.floatP THEN 4 ELSE 8)
            /\ \E jj \in 0..ntoas' :
                  IF jj # ntoas'
                  THEN /\ pc' = "failed" /\ status' = 255
                       /\ UNCHANGED <<ddata, loaded>>
                  ELSE /\ ddata' = source
                       /\ loaded' = ddata'
                       /\ pc' = "open_out"
                       /\ UNCHANGED status
    /\ UNCHANGED <<env, cmd, files, sweep, log, oobReads, oobWrite>>

\* main, lines 237-244: fclose(infile); fopen of the output, not tested
OpenOutfile ==
    /\ pc = "open_out"
    /\ infile' = "closed"
    /\ \E f \in {"open", "NULL"} : outfile' = f
    /\ pc' = "sort"
    /\ UNCHANGED <<env, cmd, status, ddata, ntoas, sweep, history>>

\* main, line 248
SortToas ==
    /\ pc = "sort"
    /\ ddata' = qsort(ddata)
    /\ pc' = "norm"
    /\ UNCHANGED <<env, cmd, status, files, ntoas, sweep, history>>

\* main, lines 252-263: the origin, the offsets in seconds, the first TOA.
\* With no TOAs, ddata[0] is read past the end: at line 255 when no epoch is
\* given, and always at line 263.
Normalize ==
    /\ pc = "norm"
    /\ \E first \in Deref(ddata, ntoas, 0) :
          /\ To' = IF cmd.t0P THEN cmd.t0 ELSE first.val
          /\ ddata' = [i \in 1..ntoas |-> Offset(ddata[i], To', cmd.secP)]
          /\ toaptr' = 0
          /\ toa' = IF ntoas > 0 THEN ddata'[1] ELSE first.val
          /\ oobReads' = IF ntoas > 0 THEN oobReads ELSE oobReads \cup {0}
          /\ IF first.fault
             THEN Crash
             ELSE pc' = "setup" /\ UNCHANGED status
    /\ UNCHANGED <<env, cmd, files, ntoas, ii, numwrites, numtowrite, dtfract,
                   blockt, lotime, hitime, numplaced, fdata, written,
                   loaded, log, oobWrite>>

\* main, lines 267-274
Setup ==
    /\ pc = "setup"
    /\ numwrites' = NumWrites(cmd.numout)
    /\ dtfract' = Recip(cmd.dt)
    /\ blockt' = WORKLEN * cmd.dt
    /\ ii' = 0
    /\ pc' = "loop"
    /\ UNCHANGED <<env, cmd, status, files, ddata, ntoas, To, toaptr, toa,
                   numtowrite, lotime, hitime, numplaced, fdata, written, history>>

\* main, lines 274-286: the next block's window and length, the buffer zeroed
BlockStart ==
    /\ pc = "loop" /\ ii < numwrites
    /\ lotime' = LoTime(ii, blockt)
    /\ hitime' = HiTime(ii, blockt)
    /\ numtowrite' = NumToWrite(cmd.numout, ii, numwrites)
    /\ fdata' = <<>>
    /\ pc' = "place"
    /\ UNCHANGED <<env, cmd, status, files, ddata, ntoas, To, toaptr, toa, ii,
                   numwrites, dtfract, blockt, numplaced, written, history>>

\* main, lines 290-299: one pass of the while loop's body.  An increment of
\* fdata outside the buffer is undefined: it faults, or lands outside fdata.
PlaceToa ==
    /\ pc = "place"
    /\ toaptr < ntoas /\ ~Ge(toa, hitime)
    /\ LET bin == IF Ge(toa, lotime) THEN BinIndex(toa, lotime, dtfract) ELSE -1
           inside == bin \in 0..(WORKLEN - 1)
       IN  /\ log' = Append(log, [idx |-> toaptr + 1, block |-> ii, bin |-> bin])
           /\ numplaced' = IF Ge(toa, lotime) THEN numplaced + 1 ELSE numplaced
           /\ fdata' = IF Ge(toa, lotime) /\ inside
                       THEN (IF bin \in DOMAIN fdata
                             THEN [fdata EXCEPT ![bin] = @ + 1]
                             ELSE (bin :> 1) @@ fdata)
                       ELSE fdata
           /\ oobWrite' = (oobWrite \/ (Ge(toa, lotime) /\ ~inside))
           /\ toaptr' = toaptr + 1
           /\ oobReads' = IF toaptr + 1 < ntoas THEN oobReads
                          ELSE oobReads \cup {toaptr + 1}
           /\ \E next \in Deref(ddata, ntoas, toaptr + 1) :
              \E wfault \in (IF Ge(toa, lotime) /\ ~inside THEN BOOLEAN ELSE {FALSE}) :
                 /\ toa' = next.val
                 /\ IF next.fault \/ wfault
                    THEN Crash
                    ELSE UNCHANGED <<pc, status>>
    /\ UNCHANGED <<env, cmd, files, ddata, ntoas, To, ii, numwrites, numtowrite,
                   dtfract, blockt, lotime, hitime, written, loaded>>

\* main, lines 290-292: the while loop ends, at the last TOA or at hitime
PlaceDone ==
    /\ pc = "place"
    /\ ~(toaptr < ntoas) \/ Ge(toa, hitime)
    /\ pc' = "write"
    /\ UNCHANGED <<env, cmd, status, files, ddata, ntoas, sweep, history>>

\* main, lines 303-304 and the loop's ii++; fwrite on a NULL stream faults
WriteBlock ==
    /\ pc = "write"
    /\ IF outfile = "NULL"
       THEN Crash /\ UNCHANGED <<written, ii>>
       ELSE /\ written' = Append(written,
                 [len |-> numtowrite,
                  bins |-> [k \in {b \in DOMAIN fdata : b < numtowrite} |-> fdata[k]]])
            /\ ii' = ii + 1
            /\ pc' = "loop"
            /\ UNCHANGED status
    /\ UNCHANGED <<env, cmd, files, ddata, ntoas, To, toaptr, toa, numwrites,
                   numtowrite, dtfract, blockt, lotime, hitime, numplaced, fdata,
                   history>>

\* main, lines 274 and 308-312: the loop is over; fclose on a NULL stream faults
Finish ==
    /\ pc = "loop" /\ ~(ii < numwrites)
    /\ IF outfile = "NULL"
       THEN Crash /\ UNCHANGED outfile
       ELSE pc' = "done" /\ status' = 0 /\ outfile' = "closed"
    /\ UNCHANGED <<env, cmd, infile, ddata, ntoas, sweep, history>>

Next ==
    \/ ParseCmdline
    \/ OpenInfile
    \/ ReadText
    \/ ReadBinary
    \/ OpenOutfile
    \/ SortToas
    \/ Normalize
    \/ Setup
    \/ BlockStart
    \/ PlaceToa
    \/ PlaceDone
    \/ WriteBlock
    \/ Finish

Spec == Init /\ [][Next]_vars

(***************************************************************************)
(* read_toas on its own, over every text source within the bound.          *)
(***************************************************************************)
InitText ==
    /\ pc = "rt_call"
    /\ argv = [textP |-> TRUE, floatP |-> FALSE, secP |-> TRUE, t0P |-> FALSE,
               t0 |-> 0, inffileP |-> FALSE, inflen |-> 0, dt |-> 1, numout |-> 0]
    /\ inffile = <<>>
    /\ idata = NoInf
    /\ source \in SeqsUpTo(TextChars, MaxFileLen)
    /\ cmd = [dt |-> 1, numout |-> 0, t0P |-> FALSE, t0 |-> 0, secP |-> TRUE]
    /\ Locals

ReadToasCall ==
    /\ pc = "rt_call"
    /\ ntoas' = read_toas(source).numtoa
    /\ ddata' = read_toas(source).toas
    /\ loaded' = ddata'
    /\ pc' = "rt_done"
    /\ UNCHANGED <<env, cmd, status, files, sweep, log, oobReads, oobWrite>>

NextText == ReadToasCall

SpecText == InitText /\ [][NextText]_vars

(***************************************************************************)
(* What the claims are stated against: the series as one histogram, the    *)
(* lines of a text source.                                                 *)
(***************************************************************************)
Ceil(n, c) == (n + c - 1) \div c

IsFinite(x) == ~IsNaN(x) /\ ~IsInf(x)

\* a < b: false when either is NaN
Lt(a, b) == ~IsNaN(a) /\ ~IsNaN(b) /\ a < b

\* The offset t lies inside the series [0, numout * dt)
InSeries(t) == Ge(t, 0) /\ Lt(t, cmd.numout * cmd.dt)

InSeriesToas == {i \in 1..ntoas : InSeries(ddata[i])}

\* The nonzero bins of the histogram of the TOAs over numout bins of width dt
HistPairs ==
    {<<ddata[i] \div cmd.dt,
       Cardinality({m \in InSeriesToas : ddata[m] \div cmd.dt = ddata[i] \div cmd.dt})>> :
        i \in InSeriesToas}

RECURSIVE LenBefore(_)
LenBefore(j) == IF j <= 1 THEN 0 ELSE LenBefore(j - 1) + written[j - 1].len

\* The nonzero bins of the written blocks laid end to end, and their length
SeriesPairs ==
    UNION {{<<LenBefore(j) + b, written[j].bins[b]>> : b \in DOMAIN written[j].bins} :
             j \in 1..Len(written)}

SeriesLen == LenBefore(Len(written) + 1)

\* The lines of a text source, and the values of those that hold a TOA
LineAt(f, s) ==
    LET later == {i \in s..Len(f) : f[i] = "\n"}
    IN  SubSeq(f, s, IF later = {} THEN Len(f)
                     ELSE (CHOOSE i \in later : \A k \in later : i <= k) - 1)

IsToaLine(l) == l # <<>> /\ l[1] # "#" /\ sscanf(l).ok

RECURSIVE ToaLinesFrom(_, _)
ToaLinesFrom(f, s) ==
    IF s > Len(f) THEN <<>>
    ELSE (IF IsToaLine(LineAt(f, s)) THEN <<sscanf(LineAt(f, s)).val>> ELSE <<>>)
         \o ToaLinesFrom(f, s + Len(LineAt(f, s)) + 1)

EndsInNewline(f) == f = <<>> \/ f[Len(f)] = "\n"

MinOf(sq) == CHOOSE v \in {sq[i] : i \in 1..Len(sq)} : \A i \in 1..Len(sq) : v <= sq[i]

AfterNorm == pc \in {"setup", "loop", "place", "write", "done"}

\* The epoch lines of the .inf file given, and the one readinf reads last
EpochLinesOf(file) == {i \in 1..Len(file) : file[i].key = "epoch"}

HasEpochLine == argv.inffileP /\ EpochLinesOf(inffile) # {}

LastEpochLine ==
    inffile[CHOOSE i \in EpochLinesOf(inffile) : \A k \in EpochLinesOf(inffile) : k <= i]

\* x is the epoch that the line l states: its whole days and, after the
\* '.', its decimal digits
IsEpochOf(x, l) ==
    /\ IsFinite(x)
    /\ x * (10 ^ Len(l.frac)) = l.val * (10 ^ Len(l.frac)) + DecimalValue(l.frac, 0)

\* An explicit epoch is supplied: on the command line or in the .inf file
EpochSupplied == argv.t0P \/ HasEpochLine

(***************************************************************************)
(* The claims.                                                             *)
(***************************************************************************)

\* C1 (count conservation): when the run finishes, the reported placed count
\* is the number of TOAs whose offset lies in [0, numout * dt); a TOA at or
\* after numout * dt counts as dropped also when it is before the last
\* block's hitime.
C1_CountConservation ==
    pc = "done" => numplaced = Cardinality(InSeriesToas)

\* C2 (histogram equivalence): when the run finishes, the written blocks laid
\* end to end are the histogram of the TOAs over numout bins of width dt from
\* offset 0: bin k counts the TOAs with floor(offset / dt) = k.
C2_HistogramEquivalence ==
    pc = "done" => SeriesLen = cmd.numout /\ SeriesPairs = HistPairs

\* C3 (block length law): every written block has length WORKLEN, except the
\* last of a series whose length is no multiple of WORKLEN, which has length
\* numout mod WORKLEN; never more than ceil(numout / WORKLEN) blocks are
\* written, and a finished run has written exactly that many, numout bins in
\* all.
C3_BlockLengthLaw ==
    /\ Len(written) <= Ceil(cmd.numout, WORKLEN)
    /\ \A j \in 1..Len(written) :
          written[j].len = IF j < Ceil(cmd.numout, WORKLEN) \/ cmd.numout % WORKLEN = 0
                           THEN WORKLEN ELSE cmd.numout % WORKLEN
    /\ pc = "done" => Len(written) = Ceil(cmd.numout, WORKLEN) /\ SeriesLen = cmd.numout

\* A finished run of two blocks, the second one shorter than WORKLEN
C3_Witness ==
    pc = "done" /\ Len(written) = 2 /\ written[1].len = WORKLEN /\ written[2].len = 5

\* C4 (text loader): read_toas returns, in line order, the values of exactly
\* the lines that do not start with '#', are not blank and begin with a
\* number, and their count; a blank or comment line does not stop the scan.
\* Stated for sources whose last line ends in a newline.
C4_TextLoader ==
    (pc = "rt_done" /\ EndsInNewline(source)) =>
        ddata = ToaLinesFrom(source, 1) /\ ntoas = Len(ToaLinesFrom(source, 1))

\* C5 (fatal input conditions): when the TOA source or the output cannot be
\* opened, or a binary read is short, no block is ever written, the binning
\* loop is never entered, and the run does not end with status zero.
C5_FatalInput ==
    (infile = "NULL" \/ outfile = "NULL" \/ (pc = "failed" /\ infile = "open")) =>
        /\ written = <<>>
        /\ pc \notin {"place", "write"}
        /\ status # 0

\* C6 (empty input): with zero TOAs loaded the run reads no element of the
\* empty TOA set, does not fault, and finishes with status zero, placed = 0
\* and a series of numout bins that are all zero.
C6_EmptyInput ==
    (infile = "closed" /\ outfile # "NULL" /\ ntoas = 0) =>
        /\ oobReads = {}
        /\ pc # "crashed"
        /\ pc = "done" =>
              status = 0 /\ numplaced = 0 /\ SeriesLen = cmd.numout /\ SeriesPairs = {}

\* C7 (boundary tick): for dt > 0, a TOA whose offset is exactly k * dt,
\* 0 <= k < numout, goes to bin k mod WORKLEN of block k div WORKLEN; and the
\* bin index the code computes, (int) ((toa - lotime) * (1 / dt)), is
\* floor((toa - lotime) / dt).
C7_BoundaryTick ==
    \A j \in 1..Len(log) :
        /\ (cmd.dt > 0 /\ IsFinite(ddata[j]) /\ ddata[j] >= 0
              /\ ddata[j] % cmd.dt = 0 /\ ddata[j] \div cmd.dt < cmd.numout) =>
              /\ log[j].block = (ddata[j] \div cmd.dt) \div WORKLEN
              /\ log[j].bin = (ddata[j] \div cmd.dt) % WORKLEN
        /\ log[j].bin # -1 =>
              log[j].bin = (ddata[j] - log[j].block * WORKLEN * cmd.dt) \div cmd.dt

\* C8 (origin selection): the origin is the explicit epoch when one is
\* supplied: the command line's when it gives one, and else the epoch that
\* the epoch line of the .inf file states; with no epoch supplied it is the
\* least raw TOA, and then, with at least one TOA, the first offset is 0, no
\* offset is negative, the offsets are in ascending order and no TOA is
\* skipped as too early.
C8_OriginSelection ==
    AfterNorm =>
        /\ argv.t0P => To = argv.t0
        /\ (~argv.t0P /\ HasEpochLine) => IsEpochOf(To, LastEpochLine)
        /\ (~EpochSupplied /\ ntoas > 0) =>
              /\ To = MinOf(loaded)
              /\ ddata[1] = 0
              /\ \A i \in 1..ntoas : IsFinite(ddata[i]) /\ ddata[i] >= 0
              /\ \A i \in 1..ntoas : \A k \in i..ntoas : Ge(ddata[k], ddata[i])
              /\ \A j \in 1..Len(log) : log[j].bin # -1

\* C9 (single forward sweep): the TOAs are consumed (tested against lotime
\* and passed by the cursor) one by one in ascending index order, each once,
\* and the cursor is the number consumed; a TOA is skipped, as one that is
\* not at or after lotime, only in block 0; a TOA consumed in a later block
\* is not below that block's lotime; a TOA of offset >= 0 is consumed in the
\* block whose window [i * WORKLEN * dt, (i + 1) * WORKLEN * dt) holds it; a
\* finished run has consumed every TOA inside a block's window.
C9_SingleSweep ==
    /\ toaptr = Len(log)
    /\ \A j \in 1..Len(log) :
          /\ log[j].idx = j
          /\ log[j].bin = -1 => (log[j].block = 0 /\ ~Ge(ddata[j], 0))
          /\ log[j].block > 0 => Ge(ddata[j], log[j].block * WORKLEN * cmd.dt)
          /\ Ge(ddata[j], 0) =>
                /\ Ge(ddata[j], log[j].block * WORKLEN * cmd.dt)
                /\ Lt(ddata[j], (log[j].block + 1) * WORKLEN * cmd.dt)
    /\ pc = "done" =>
          \A i \in 1..ntoas :
              (Ge(ddata[i], 0) /\ Lt(ddata[i], numwrites * WORKLEN * cmd.dt))
                  => i <= Len(log)

\* A finished run that skipped a TOA in block 0 and placed one in block 1
C9_Witness ==
    /\ pc = "done" /\ Len(log) = 2
    /\ log[1].bin = -1 /\ log[1].block = 0
    /\ log[2].bin # -1 /\ log[2].block = 1

\* C10 (bounds safety): every read of ddata is at an index in [0, ntoas) and
\* every increment of fdata at an index in [0, WORKLEN).
C10_BoundsSafety == oobReads = {} /\ ~oobWrite

====
